---- MODULE Spec2Model ----
(***************************************************************************)
(* Orca LP Range Manager: the trigger / dwell / cooldown decision engine   *)
(* (strategy.ts, listed in README.md), the five-step migration of          *)
(* executeRebalance (rebalance.ts) over the venue helpers of orca.ts, and  *)
(* the daemon poll loop with its signal handlers (index.ts).               *)
(*                                                                         *)
(* Times are integer milliseconds as returned by Date.now(); the *Seconds  *)
(* parameters are whole seconds; a duration the code holds in seconds      *)
(* (timeRemaining) is kept here in milliseconds.  edgeBufferPercent is a   *)
(* whole number of hundredths (2 stands for 0.02).  A nullable            *)
(* dwellStartTime is <<>> for null and <<t>> for the number t.             *)
(***************************************************************************)
EXTENDS Integers, Sequences, FiniteSets, TLC

VARIABLES
  config,      \* the loaded Config / StrategyParams of this run
  clock,       \* what Date.now() returns at this moment
  pc,          \* where runDaemon stands: fetch, evaluate, rebalance, sleep, exited
  state,       \* runDaemon's `let state`: the StrategyState
  snapshot,    \* whirlpoolInfo and positions[0] of the current poll
  evaluation,  \* the latest return value of runStrategyEvaluation, with its inputs
  wallet,      \* the positions the wallet holds at the venue
  mig,         \* the executeRebalance call in flight, or the last one
  history,     \* what the run has logged: completed migrations, runs of one reason
  returned     \* the value of the last call made to one function on its own

vars == <<config, clock, pc, state, snapshot, evaluation, wallet, mig, history, returned>>

----------------------------------------------------------------------------
(* Bounds of the model *)

StartTime == 200000      \* Date.now() when the daemon starts
MaxElapsed == 5000       \* the daemon is followed for this many ms
MaxAttempts == 2         \* executeRebalance calls followed in one run
SkewMs == 1              \* ms between the two Date.now() reads of an evaluation
CallMs == 500            \* ms a venue call takes
MinTick == 1             \* lowest pool tick observed
TickSpacing == 2         \* the pool's tick spacing
HalfWidthTicks == 4      \* ticks between a center price and center * (1 + rangeWidthPercent)

\* the pool ticks observed: below, at the lower bound of, inside and at the upper
\* bound of the first position
Ticks == {MinTick, MinTick + 1, MinTick + 4, MinTick + 7}

----------------------------------------------------------------------------
(* strategy.ts *)

createStrategyState ==
  [triggerReason |-> "none", dwellStartTime |-> <<>>, dwellReason |-> "null",
   lastRebalanceTime |-> 0]

\* a range closed at its upper tick
isPriceInRangeInclusive(currentTick, lowerTick, upperTick) ==
  currentTick >= lowerTick /\ currentTick <= upperTick

isPriceInRange(currentTick, lowerTick, upperTick) ==
  currentTick >= lowerTick /\ currentTick < upperTick

\* a distance that counts as near the edge when it equals the buffer
FractionAtMost(num, den, pct) ==
  IF den > 0 THEN num * 100 <= pct * den
  ELSE IF den < 0 THEN num * 100 >= pct * den
  ELSE num <= 0

\* num/den < pct/100 in IEEE arithmetic: x/0 is +-Infinity or NaN
FractionBelow(num, den, pct) ==
  IF den > 0 THEN num * 100 < pct * den
  ELSE IF den < 0 THEN num * 100 > pct * den
  ELSE num < 0

calculateEdgeDistance(currentTick, lowerTick, upperTick) ==
  [rangeWidth |-> upperTick - lowerTick,
   distanceToLower |-> currentTick - lowerTick,
   distanceToUpper |-> upperTick - currentTick]

\* details.edgeDistance is <<>> for undefined: calculateEdgeDistance is called
\* only where inRange holds
evaluateTrigger(currentTick, position, params) ==
  LET lowerTick == position.tickLowerIndex
      upperTick == position.tickUpperIndex
      inRange == isPriceInRange(currentTick, lowerTick, upperTick)
      edgeDistance == calculateEdgeDistance(currentTick, lowerTick, upperTick)
      triggerReason ==
        IF ~inRange THEN "out_of_range"
        ELSE IF params.edgeBufferPercent > 0
          THEN IF FractionBelow(edgeDistance.distanceToLower, edgeDistance.rangeWidth,
                                params.edgeBufferPercent)
                 THEN "near_lower_edge"
               ELSE IF FractionBelow(edgeDistance.distanceToUpper, edgeDistance.rangeWidth,
                                     params.edgeBufferPercent)
                 THEN "near_upper_edge"
               ELSE "none"
          ELSE "none"
  IN [shouldRebalance |-> triggerReason # "none", reason |-> triggerReason,
      edgeDistance |-> IF inRange THEN <<edgeDistance>> ELSE <<>>]

\* a dwell that is consumed by the evaluation that finds it completed
processDwellConsuming(st, triggerResult, params, now) ==
  IF ~triggerResult.shouldRebalance
    THEN [dwellCompleted |-> FALSE,
          state |-> [st EXCEPT !.dwellStartTime = <<>>, !.dwellReason = "null"]]
  ELSE IF st.dwellStartTime = <<>> \/ st.dwellReason # triggerResult.reason
    THEN [dwellCompleted |-> FALSE,
          state |-> [st EXCEPT !.dwellStartTime = <<now>>,
                               !.dwellReason = triggerResult.reason]]
  ELSE IF (now - st.dwellStartTime[1]) >= params.dwellSeconds * 1000
    THEN [dwellCompleted |-> TRUE,
          state |-> [st EXCEPT !.dwellStartTime = <<>>, !.dwellReason = "null"]]
  ELSE [dwellCompleted |-> FALSE, state |-> st]

\* a dwell that is complete only after more than dwellSeconds
processDwellStrict(st, triggerResult, params, now) ==
  IF ~triggerResult.shouldRebalance
    THEN [dwellCompleted |-> FALSE,
          state |-> IF st.dwellStartTime # <<>>
                      THEN [st EXCEPT !.dwellStartTime = <<>>, !.dwellReason = "null"]
                      ELSE st]
  ELSE IF st.dwellStartTime = <<>> \/ st.dwellReason # triggerResult.reason
    THEN [dwellCompleted |-> FALSE,
          state |-> [st EXCEPT !.dwellStartTime = <<now>>,
                               !.dwellReason = triggerResult.reason]]
  ELSE [dwellCompleted |-> (now - st.dwellStartTime[1]) > params.dwellSeconds * 1000,
        state |-> st]

\* a dwell that is also started and served for the reason 'none'
processDwellAnyReason(st, triggerResult, params, now) ==
  IF st.dwellStartTime = <<>> \/ st.dwellReason # triggerResult.reason
    THEN [dwellCompleted |-> FALSE,
          state |-> [st EXCEPT !.dwellStartTime = <<now>>,
                               !.dwellReason = triggerResult.reason]]
  ELSE [dwellCompleted |-> (now - st.dwellStartTime[1]) >= params.dwellSeconds * 1000,
        state |-> st]

\* a dwell that outlives an evaluation that observes no condition
processDwellSticky(st, triggerResult, params, now) ==
  IF ~triggerResult.shouldRebalance
    THEN [dwellCompleted |-> FALSE, state |-> st]
  ELSE IF st.dwellStartTime = <<>> \/ st.dwellReason # triggerResult.reason
    THEN [dwellCompleted |-> FALSE,
          state |-> [st EXCEPT !.dwellStartTime = <<now>>,
                               !.dwellReason = triggerResult.reason]]
  ELSE [dwellCompleted |-> (now - st.dwellStartTime[1]) >= params.dwellSeconds * 1000,
        state |-> st]

\* a dwell that carries its start over to a new reason
processDwellKeepingStart(st, triggerResult, params, now) ==
  IF ~triggerResult.shouldRebalance
    THEN [dwellCompleted |-> FALSE,
          state |-> IF st.dwellStartTime # <<>>
                      THEN [st EXCEPT !.dwellStartTime = <<>>, !.dwellReason = "null"]
                      ELSE st]
  ELSE IF st.dwellStartTime = <<>>
    THEN [dwellCompleted |-> FALSE,
          state |-> [st EXCEPT !.dwellStartTime = <<now>>,
                               !.dwellReason = triggerResult.reason]]
  ELSE [dwellCompleted |-> (now - st.dwellStartTime[1]) >= params.dwellSeconds * 1000,
        state |-> [st EXCEPT !.dwellReason = triggerResult.reason]]

\* a dwell tracker that writes the observed reason into the state
processDwellRecordingReason(st, triggerResult, params, now) ==
  IF ~triggerResult.shouldRebalance
    THEN [dwellCompleted |-> FALSE,
          state |-> [st EXCEPT !.dwellStartTime = <<>>, !.dwellReason = "null",
                               !.triggerReason = triggerResult.reason]]
  ELSE IF st.dwellStartTime = <<>> \/ st.dwellReason # triggerResult.reason
    THEN [dwellCompleted |-> FALSE,
          state |-> [st EXCEPT !.dwellStartTime = <<now>>,
                               !.dwellReason = triggerResult.reason,
                               !.triggerReason = triggerResult.reason]]
  ELSE [dwellCompleted |-> (now - st.dwellStartTime[1]) >= params.dwellSeconds * 1000,
        state |-> [st EXCEPT !.triggerReason = triggerResult.reason]]

\* a dwell that is already complete when it starts with dwellSeconds = 0
processDwellImmediate(st, triggerResult, params, now) ==
  IF ~triggerResult.shouldRebalance
    THEN [dwellCompleted |-> FALSE,
          state |-> IF st.dwellStartTime # <<>>
                      THEN [st EXCEPT !.dwellStartTime = <<>>, !.dwellReason = "null"]
                      ELSE st]
  ELSE IF st.dwellStartTime = <<>> \/ st.dwellReason # triggerResult.reason
    THEN [dwellCompleted |-> params.dwellSeconds = 0,
          state |-> [st EXCEPT !.dwellStartTime = <<now>>,
                               !.dwellReason = triggerResult.reason]]
  ELSE [dwellCompleted |-> (now - st.dwellStartTime[1]) >= params.dwellSeconds * 1000,
        state |-> st]

processDwell(st, triggerResult, params, now) ==
  IF ~triggerResult.shouldRebalance
    THEN [dwellCompleted |-> FALSE,
          state |-> IF st.dwellStartTime # <<>>
                      THEN [st EXCEPT !.dwellStartTime = <<>>, !.dwellReason = "null"]
                      ELSE st]
  ELSE IF st.dwellStartTime = <<>> \/ st.dwellReason # triggerResult.reason
    THEN [dwellCompleted |-> FALSE,
          state |-> [st EXCEPT !.dwellStartTime = <<now>>,
                               !.dwellReason = triggerResult.reason]]
  ELSE [dwellCompleted |-> (now - st.dwellStartTime[1]) >= params.dwellSeconds * 1000,
        state |-> st]

\* a cooldown gate that lets every request through
checkCooldownOpen(st, params, now) == [canRebalance |-> TRUE, timeRemaining |-> 0]

\* a cooldown that still blocks at exactly minRebalanceIntervalSeconds
checkCooldownExclusive(st, params, now) ==
  LET timeSinceLastRebalance == now - st.lastRebalanceTime
  IN IF timeSinceLastRebalance <= params.minRebalanceIntervalSeconds * 1000
       THEN [canRebalance |-> FALSE,
             timeRemaining |-> params.minRebalanceIntervalSeconds * 1000
                                 - timeSinceLastRebalance]
       ELSE [canRebalance |-> TRUE, timeRemaining |-> 0]

checkCooldown(st, params, now) ==
  LET timeSinceLastRebalance == now - st.lastRebalanceTime
  IN IF timeSinceLastRebalance < params.minRebalanceIntervalSeconds * 1000
       THEN [canRebalance |-> FALSE,
             timeRemaining |-> params.minRebalanceIntervalSeconds * 1000
                                 - timeSinceLastRebalance]
       ELSE [canRebalance |-> TRUE, timeRemaining |-> 0]

\* an evaluation that starts the cooldown itself when it decides to go
runStrategyEvaluationFolding(st, currentTick, position, params, nowDwell, nowCooldown) ==
  LET triggerResult == evaluateTrigger(currentTick, position, params)
      dwell == processDwell(st, triggerResult, params, nowDwell)
      cooldown == checkCooldown(dwell.state, params, nowCooldown)
      go == dwell.dwellCompleted /\ cooldown.canRebalance
  IN [shouldRebalance |-> go, reason |-> triggerResult.reason,
      newState |-> IF go THEN [dwell.state EXCEPT !.lastRebalanceTime = nowCooldown]
                         ELSE dwell.state,
      dwellCompleted |-> dwell.dwellCompleted,
      timeRemaining |-> IF dwell.dwellCompleted THEN cooldown.timeRemaining ELSE 0]

\* nowDwell and nowCooldown are the Date.now() reads of processDwell and checkCooldown
runStrategyEvaluation(st, currentTick, position, params, nowDwell, nowCooldown) ==
  LET triggerResult == evaluateTrigger(currentTick, position, params)
      dwell == processDwell(st, triggerResult, params, nowDwell)
      cooldown == checkCooldown(dwell.state, params, nowCooldown)
  IN IF ~dwell.dwellCompleted
       THEN [shouldRebalance |-> FALSE, reason |-> triggerResult.reason,
             newState |-> dwell.state, dwellCompleted |-> FALSE, timeRemaining |-> 0]
     ELSE IF ~cooldown.canRebalance
       THEN [shouldRebalance |-> FALSE, reason |-> triggerResult.reason,
             newState |-> dwell.state, dwellCompleted |-> TRUE,
             timeRemaining |-> cooldown.timeRemaining]
     ELSE [shouldRebalance |-> TRUE, reason |-> triggerResult.reason,
           newState |-> dwell.state, dwellCompleted |-> TRUE, timeRemaining |-> 0]

\* a completed migration that starts the cooldown and keeps the dwell
markRebalanceCompleteKeepingDwell(st, now) ==
  [st EXCEPT !.lastRebalanceTime = now, !.triggerReason = "none"]

markRebalanceComplete(st, now) ==
  [st EXCEPT !.lastRebalanceTime = now, !.dwellStartTime = <<>>,
             !.dwellReason = "null", !.triggerReason = "none"]

\* strategy.ts is not among the sources and README.md does not list this function:
\* taken from the specification (clear the dwell, keep lastRebalanceTime).
markRebalanceFailed(st) ==
  [st EXCEPT !.dwellStartTime = <<>>, !.dwellReason = "null"]

----------------------------------------------------------------------------
(* orca.ts: range of a new position *)

\* TickUtil.getInitializableTickIndex of the SDK: tick - tick % tickSpacing,
\* with JavaScript's remainder (sign of the dividend)
getInitializableTickIndex(tick, tickSpacing) ==
  IF tick >= 0 THEN tick - (tick % tickSpacing)
  ELSE tick + ((0 - tick) % tickSpacing)

\* in tick coordinates: center/(1+w) and center*(1+w) lie widthTicks ticks
\* below and above the tick of the center price
calculateTickRange(centerTick, widthTicks, tickSpacing) ==
  LET lowerTick == getInitializableTickIndex(centerTick - widthTicks, tickSpacing)
      upperTick == getInitializableTickIndex(centerTick + widthTicks, tickSpacing)
  IN IF lowerTick > upperTick
       THEN [lowerTick |-> upperTick, upperTick |-> lowerTick]
       ELSE [lowerTick |-> lowerTick, upperTick |-> upperTick]

----------------------------------------------------------------------------
(* The configurations followed *)

Configs ==
  [dryRun : BOOLEAN,
   pollIntervalSeconds : {1},
   edgeBufferPercent : {20},
   dwellSeconds : {0, 1},
   minRebalanceIntervalSeconds : {0, 3}]

InitialPosition ==
  [tickLowerIndex |-> MinTick + 1, tickUpperIndex |-> MinTick + 7, liquidity |-> 1]

\* what a later evaluation remembers of the one before it
Summary(e) ==
  [shouldRebalance |-> e.shouldRebalance, reason |-> e.reason, newState |-> e.newState,
   dwellCompleted |-> e.dwellCompleted, timeRemaining |-> e.timeRemaining,
   nowDwell |-> e.nowDwell]

NoSummary ==
  [shouldRebalance |-> FALSE, reason |-> "none", newState |-> createStrategyState,
   dwellCompleted |-> FALSE, timeRemaining |-> 0, nowDwell |-> 0]

NoEvaluation ==
  [stateIn |-> createStrategyState, nowDwell |-> 0, nowCooldown |-> 0, inFlight |-> 0,
   shouldRebalance |-> FALSE, reason |-> "none", newState |-> createStrategyState,
   dwellCompleted |-> FALSE, timeRemaining |-> 0, prev |-> NoSummary]

\* no whirlpoolInfo and no positions[0] bound in this iteration of the loop
NoSnapshot == [currentTickIndex |-> 0, posIndex |-> 0]

NoResult ==
  [success |-> FALSE, newPosition |-> FALSE, feesCollected |-> FALSE, error |-> "none"]

NoMigration ==
  [pc |-> "idle", inFlight |-> 0, attempts |-> 0, stateArg |-> createStrategyState,
   posIndex |-> 0, tick |-> 0, poolTick |-> 0, calls |-> <<>>, result |-> NoResult,
   removedLiquidity |-> FALSE, newPositionAddress |-> 0,
   newState |-> createStrategyState]

\* nothing logged yet
NoHistory == [completed |-> <<>>, runs |-> <<>>]

NoReturn == [fn |-> "none", value |-> FALSE]

Init ==
  /\ config \in Configs
  /\ clock = StartTime
  /\ pc = "fetch"
  /\ state = createStrategyState
  /\ snapshot = NoSnapshot
  /\ evaluation = NoEvaluation
  /\ wallet = <<InitialPosition>>
  /\ mig = NoMigration
  /\ history = NoHistory
  /\ returned = NoReturn

----------------------------------------------------------------------------
(* index.ts: runDaemon *)

Running == pc # "exited"

LastCall == mig.calls[Len(mig.calls)]

Pending == mig.calls # <<>> /\ LastCall.ret = "pending"

\* a loop that starts over from a fresh engine state when a poll finds nothing
FetchForgetting ==
  /\ pc = "fetch"
  /\ \/ /\ pc' = "sleep"
        /\ snapshot' = NoSnapshot
        /\ state' = createStrategyState
     \/ \E tick \in Ticks, i \in DOMAIN wallet :
          /\ snapshot' = [currentTickIndex |-> tick, posIndex |-> i]
          /\ pc' = "evaluate"
          /\ UNCHANGED state
  /\ UNCHANGED <<history, returned, config, clock, evaluation, wallet, mig>>

\* getWhirlpoolInfo and findPositions: a read throws (the loop's catch) or no
\* position is listed (`continue` after the sleep), or they give the current tick
\* and the first position listed (the listing order is the SDK's)
Fetch ==
  /\ pc = "fetch"
  /\ \/ /\ pc' = "sleep"
        /\ snapshot' = NoSnapshot
     \/ \E tick \in Ticks, i \in DOMAIN wallet :
          /\ snapshot' = [currentTickIndex |-> tick, posIndex |-> i]
          /\ pc' = "evaluate"
  /\ UNCHANGED <<history, returned, config, clock, state, evaluation, wallet, mig>>

\* the call runStrategyEvaluation(st, whirlpoolInfo, position, params, ...) made
\* when Date.now() is `now`, as the record kept in `evaluation`
Evaluated(st, tick, position, now, skew) ==
  LET ev == runStrategyEvaluation(st, tick, position, config, now, now + skew)
  IN [stateIn |-> st, nowDwell |-> now, nowCooldown |-> now + skew,
      inFlight |-> mig.inFlight,
      shouldRebalance |-> ev.shouldRebalance, reason |-> ev.reason,
      newState |-> ev.newState, dwellCompleted |-> ev.dwellCompleted,
      timeRemaining |-> ev.timeRemaining, prev |-> Summary(evaluation)]

\* runStrategyEvaluation, state = evaluation.newState, and the call of
\* executeRebalance when it says so.  checkCooldown reads Date.now() up to SkewMs
\* after processDwell did; every later read follows an await of at least CallMs.
Evaluate ==
  /\ pc = "evaluate"
  /\ \E skew \in {0, SkewMs} :
       LET ev == Evaluated(state, snapshot.currentTickIndex,
                           wallet[snapshot.posIndex], clock, skew)
       IN /\ evaluation' = ev
          /\ state' = ev.newState
          /\ IF ev.shouldRebalance
               THEN /\ mig.attempts < MaxAttempts
                    /\ pc' = "rebalance"
                    /\ mig' = [NoMigration EXCEPT
                                 !.pc = "client", !.inFlight = mig.inFlight + 1,
                                 !.attempts = mig.attempts + 1, !.stateArg = ev.newState,
                                 !.posIndex = snapshot.posIndex,
                                 !.tick = snapshot.currentTickIndex]
               ELSE /\ pc' = "sleep"
                    /\ UNCHANGED mig
  /\ UNCHANGED <<history, returned, config, clock, snapshot, wallet>>

\* executeRebalance called without await
RebalanceNotAwaited == TRUE

\* `await executeRebalance(...)`: the loop goes on once the call has settled
RebalanceSettled == mig.pc \in {"returned", "rejected"}

\* state = newState after the await; a rejection lands in the loop's catch
Resume ==
  /\ pc = "rebalance"
  /\ RebalanceSettled
  /\ state' = IF mig.pc = "returned" THEN mig.newState ELSE state
  /\ mig' = IF mig.pc \in {"returned", "rejected"}
              THEN [NoMigration EXCEPT !.inFlight = mig.inFlight, !.attempts = mig.attempts]
              ELSE mig
  /\ pc' = "sleep"
  /\ UNCHANGED <<history, returned, config, clock, snapshot, evaluation, wallet>>

Sleep ==
  /\ pc = "sleep"
  /\ clock + config.pollIntervalSeconds * 1000 <= StartTime + MaxElapsed
  /\ clock' = clock + config.pollIntervalSeconds * 1000
  /\ pc' = "fetch"
  /\ UNCHANGED <<history, returned, config, state, snapshot, evaluation, wallet, mig>>

\* process.on('SIGINT' / 'SIGTERM'): process.exit(0)
Signal ==
  /\ Running
  /\ pc' = "exited"
  /\ UNCHANGED <<history, returned, config, clock, state, snapshot, evaluation, wallet, mig>>

----------------------------------------------------------------------------
(* rebalance.ts: executeRebalance, over the venue helpers of orca.ts *)

Commands == <<"collect", "close", "open", "deposit">>

\* the call in flight returns `out`; mutating: it sent a transaction to the venue;
\* retries: the transactions it sent after one of the same kind had failed
Returned(out, mutating, retries) ==
  [mig.calls EXCEPT ![Len(mig.calls)].ret = out,
                    ![Len(mig.calls)].mutating = mutating,
                    ![Len(mig.calls)].retries = retries]

\* the catch of executeRebalance: result.error is set, result.success stays false
Caught(m, message) == [m EXCEPT !.pc = "fold", !.result.error = message]

\* createOrcaClient, before the try: a failure rejects the call
CreateClient ==
  /\ Running
  /\ mig.pc = "client"
  /\ \/ mig' = [mig EXCEPT !.pc = "collect"]
     \/ mig' = [mig EXCEPT !.pc = "rejected", !.inFlight = mig.inFlight - 1]
  /\ UNCHANGED <<history, returned, config, clock, pc, state, snapshot, evaluation, wallet>>

\* a venue helper is called
IssueCall ==
  /\ Running
  /\ mig.pc \in {"collect", "close", "open", "deposit"}
  /\ ~Pending
  /\ mig' = [mig EXCEPT !.calls = Append(mig.calls,
                                [cmd |-> mig.pc, ret |-> "pending", mutating |-> FALSE,
                                 retries |-> 0])]
  /\ UNCHANGED <<history, returned, config, clock, pc, state, snapshot, evaluation, wallet>>

\* collectFeesAndRewards: the position read throws, or the fees are returned
\* (dry run: without a transaction), or a transaction fails and null is returned
CollectReturn ==
  /\ Running
  /\ mig.pc = "collect" /\ Pending
  /\ \E out \in IF config.dryRun THEN {"throw", "fees"} ELSE {"throw", "fees", "null"} :
       mig' = IF out = "throw"
                THEN Caught([mig EXCEPT !.calls = Returned(out, FALSE, 0)], "thrown")
                ELSE [mig EXCEPT !.calls = Returned(out, ~config.dryRun, 0), !.pc = "close",
                                 !.result.feesCollected = (out = "fees")]
  /\ clock' = clock + CallMs
  /\ UNCHANGED <<history, returned, config, pc, state, snapshot, evaluation, wallet>>

\* the result of closePosition ignored
CloseAbortsNever(closed, dryRun) == FALSE

\* `if (!closed && !config.dryRun) throw`
CloseAborts(closed, dryRun) == ~closed /\ ~dryRun

\* closePosition: decreaseLiquidity, then collectFees; false when either fails
CloseReturn ==
  /\ Running
  /\ mig.pc = "close" /\ Pending
  /\ \E out \in IF config.dryRun THEN {"throw", "true"} ELSE {"throw", "true", "false"},
        removed \in BOOLEAN :
       /\ out = "true" /\ ~config.dryRun => removed
       /\ out = "throw" \/ config.dryRun => ~removed
       /\ wallet' = IF removed THEN [wallet EXCEPT ![mig.posIndex].liquidity = 0] ELSE wallet
       /\ LET m == [mig EXCEPT !.calls = Returned(out, out # "throw" /\ ~config.dryRun, 0),
                               !.removedLiquidity =
                                  removed /\ wallet[mig.posIndex].liquidity > 0]
          IN mig' = IF out = "throw" THEN Caught(m, "thrown")
                    ELSE IF CloseAborts(out = "true", config.dryRun)
                      THEN Caught(m, "Failed to close old position")
                    ELSE [m EXCEPT !.pc = "open"]
  /\ clock' = clock + CallMs
  /\ UNCHANGED <<history, returned, config, pc, state, snapshot, evaluation>>

\* the result of openPosition ignored
OpenAbortsNever(address, dryRun) == FALSE

\* `if (!newPositionAddress && !config.dryRun) throw`
OpenAborts(address, dryRun) == address = 0 /\ ~dryRun

NewPosition(range) ==
  [tickLowerIndex |-> range.lowerTick, tickUpperIndex |-> range.upperTick, liquidity |-> 0]

\* `getCurrentPrice(whirlpoolInfo, ...)`: the whirlpoolInfo executeRebalance was
\* given by the poll, not the pool as openPosition reads it
CenterTick(pollTick, poolTick) == pollTick

\* calculateTickRange on the whirlpoolInfo passed in, then openPosition: the pool
\* read throws, or reads the pool as it is now (poolTick); dry run returns null;
\* live, the raw transaction opens the position, or fails (having landed or not)
\* and the SDK fallback is tried, which opens one or fails too
OpenReturn ==
  /\ Running
  /\ mig.pc = "open" /\ Pending
  /\ \E out \in IF config.dryRun THEN {"throw", "null"} ELSE {"throw", "address", "null"},
        rawLanded \in BOOLEAN, fallback \in BOOLEAN, poolTick \in Ticks :
       /\ out = "throw" \/ config.dryRun => ~rawLanded /\ ~fallback
       /\ out = "throw" => poolTick = mig.tick
       /\ out = "null" => ~fallback
       /\ out = "address" => rawLanded \/ fallback
       /\ LET newRange == calculateTickRange(CenterTick(mig.tick, poolTick),
                                             HalfWidthTicks, TickSpacing)
              created == (IF rawLanded THEN 1 ELSE 0) + (IF fallback THEN 1 ELSE 0)
              address == IF out = "address" THEN Len(wallet) + created ELSE 0
              mutating == out # "throw" /\ ~config.dryRun
              retries == IF mutating /\ (out = "null" \/ fallback) THEN 1 ELSE 0
              m == [mig EXCEPT !.calls = Returned(out, mutating, retries)]
          IN /\ wallet' = wallet \o [i \in 1..created |-> NewPosition(newRange)]
             /\ mig' = IF out = "throw" THEN Caught(m, "thrown")
                       ELSE IF OpenAborts(address, config.dryRun)
                         THEN Caught(m, "Failed to open new position")
                       ELSE [m EXCEPT !.pc = "balances", !.poolTick = poolTick,
                                      !.newPositionAddress = address,
                                      !.result.newPosition = TRUE]
  /\ clock' = clock + CallMs
  /\ UNCHANGED <<history, returned, config, pc, state, snapshot, evaluation>>

\* a deposit attempted whenever there is a balance
DepositWantedAnyAddress(nonZero, address) == nonZero

\* `(!balanceA.isZero() || !balanceB.isZero()) && newPositionAddress`
DepositWanted(nonZero, address) == nonZero /\ address # 0

\* getTokenBalances (zero balances when the read fails), then deposit or not;
\* the pool openPosition read is out of scope
Balances ==
  /\ Running
  /\ mig.pc = "balances"
  /\ \E nonZero \in BOOLEAN :
       mig' = IF DepositWanted(nonZero, mig.newPositionAddress)
                THEN [mig EXCEPT !.pc = "deposit", !.poolTick = 0]
                ELSE [mig EXCEPT !.pc = "fold", !.poolTick = 0, !.result.success = TRUE]
  /\ UNCHANGED <<history, returned, config, clock, pc, state, snapshot, evaluation, wallet>>

\* one deposit more than the percentages below
percentagesToTryAndOneMore == <<90, 85, 80, 75, 70, 60, 50, 40>>

percentagesToTry == <<90, 85, 80, 75, 70, 60, 50>>

\* depositLiquidity: the position or pool read throws, or the deposit is sent with
\* one percentage after the other until one is executed (true), or every one of
\* them fails or is skipped for a zero amount (false, logged as a warning)
DepositReturn ==
  /\ Running
  /\ mig.pc = "deposit" /\ Pending
  /\ \E out \in {"throw", "true", "false"}, sent \in 0..Len(percentagesToTry) :
       /\ out = "throw" => sent = 0
       /\ out = "true" => sent >= 1
       /\ out = "false" => sent \in {0, Len(percentagesToTry)}
       /\ wallet' = IF out = "true"
                      THEN [wallet EXCEPT ![mig.newPositionAddress].liquidity = 1]
                      ELSE wallet
       /\ LET retries == IF sent > 0 THEN sent - 1 ELSE 0
              m == [mig EXCEPT !.calls = Returned(out, sent > 0 /\ ~config.dryRun, retries)]
          IN mig' = IF out = "throw" THEN Caught(m, "thrown")
                    ELSE [m EXCEPT !.pc = "fold", !.result.success = TRUE]
  /\ clock' = clock + CallMs
  /\ UNCHANGED <<history, returned, config, pc, state, snapshot, evaluation>>

\* every outcome folded as a completed migration
FoldStateAlwaysComplete(success, st, now) == markRebalanceComplete(st, now)

\* `result.success ? markRebalanceComplete(state) : markRebalanceFailed(state)`
FoldState(success, st, now) ==
  IF success THEN markRebalanceComplete(st, now) ELSE markRebalanceFailed(st)

\* the log of an attempt that ends with result.newPosition set: when
\* executeRebalance was called and when it returned
Completed(started, now) == [started |-> started, completed |-> now]

Fold ==
  /\ Running
  /\ mig.pc = "fold"
  /\ mig' = [mig EXCEPT !.pc = "returned", !.inFlight = mig.inFlight - 1,
                        !.newState = FoldState(mig.result.success, mig.stateArg, clock)]
  /\ history' = IF mig.result.newPosition
                  THEN [history EXCEPT !.completed =
                          Append(@, Completed(evaluation.nowCooldown, clock))]
                  ELSE history
  /\ UNCHANGED <<returned, config, clock, pc, state, snapshot, evaluation, wallet>>

----------------------------------------------------------------------------

Next ==
  \/ Fetch \/ Evaluate \/ Resume \/ Sleep \/ Signal
  \/ CreateClient \/ IssueCall \/ CollectReturn \/ CloseReturn \/ OpenReturn
  \/ Balances \/ DepositReturn \/ Fold

Spec == Init /\ [][Next]_vars

----------------------------------------------------------------------------
(* The decision engine on its own: runStrategyEvaluation applied to the state the *)
(* last call returned, at polls StepSeconds apart, with README's default          *)
(* parameters among the configurations; a go decision is followed by either fold. *)

MaxEngineElapsed == 212000   \* the engine is followed for this many ms

StepSeconds == {10, 80, 91}

EngineConfigs ==
  [dryRun : {TRUE},
   pollIntervalSeconds : {10},
   edgeBufferPercent : {0, 20},
   dwellSeconds : {0, 10},
   minRebalanceIntervalSeconds : {0, 180}]

EngineInit ==
  /\ config \in EngineConfigs
  /\ clock = StartTime
  /\ pc = "engine"
  /\ state = createStrategyState
  /\ snapshot = NoSnapshot
  /\ evaluation = NoEvaluation
  /\ wallet = <<InitialPosition>>
  /\ mig = NoMigration
  /\ history = NoHistory
  /\ returned = NoReturn

EngineEvaluate ==
  /\ pc = "engine"
  /\ \E dt \in StepSeconds, tick \in Ticks, skew \in {0, SkewMs} :
       LET now == clock + dt * 1000
           ev == Evaluated(state, tick, wallet[1], now, skew)
       IN /\ now <= StartTime + MaxEngineElapsed
          /\ clock' = now
          /\ evaluation' = ev
          /\ state' = ev.newState
          /\ pc' = IF ev.shouldRebalance THEN "outcome" ELSE "engine"
  /\ UNCHANGED <<history, returned, config, snapshot, wallet, mig>>

EngineFold ==
  /\ pc = "outcome"
  /\ \E success \in BOOLEAN :
       state' = FoldState(success, state, clock + CallMs)
  /\ clock' = clock + CallMs
  /\ pc' = "engine"
  /\ UNCHANGED <<history, returned, config, snapshot, evaluation, wallet, mig>>

EngineNext == EngineEvaluate \/ EngineFold

EngineSpec == EngineInit /\ [][EngineNext]_vars

----------------------------------------------------------------------------
(* The poll loop second by second: every poll reads the pool and the position   *)
(* and evaluates; a go decision is followed by an executeRebalance that returns *)
(* either fold or rejects.  history.runs keeps the last three runs of           *)
(* consecutive evaluations that observed one reason.                            *)

MaxPolls == 16      \* polls followed after the first

\* below the position, at its lower bound, in its middle
PollTicks == {MinTick, MinTick + 1, MinTick + 4}

PollConfigs ==
  [dryRun : {FALSE},
   pollIntervalSeconds : {1},
   edgeBufferPercent : {2},
   dwellSeconds : {10},
   minRebalanceIntervalSeconds : {0, 4}]

PollInit ==
  /\ config \in PollConfigs
  /\ clock = StartTime
  /\ pc = "poll"
  /\ state = createStrategyState
  /\ snapshot = NoSnapshot
  /\ evaluation = NoEvaluation
  /\ wallet = <<InitialPosition>>
  /\ mig = NoMigration
  /\ history = NoHistory
  /\ returned = NoReturn

\* the evaluation at `now` added to the runs: the latest run goes on when the
\* reason is the same, a new run begins when it differs
Observe(runs, reason, now, fired) ==
  LET n == Len(runs)
      count == IF fired THEN 1 ELSE 0
  IN IF n > 0 /\ runs[n].reason = reason
       THEN [runs EXCEPT ![n].to = now, ![n].fired = @ + count]
       ELSE LET added == Append(runs, [reason |-> reason, from |-> now, to |-> now,
                                       fired |-> count])
            IN IF Len(added) > 3 THEN Tail(added) ELSE added

\* a loop that drops the state the evaluation returns
PersistedNever(st, ev) == st

\* `state = evaluation.newState`
Persisted(st, ev) == ev.newState

PollEvaluate ==
  /\ pc = "poll"
  /\ \E tick \in PollTicks, skew \in {0, SkewMs} :
       LET ev == Evaluated(state, tick, wallet[1], clock, skew)
       IN /\ evaluation' = ev
          /\ state' = Persisted(state, ev)
          /\ history' = [history EXCEPT
                           !.runs = Observe(@, ev.reason, clock, ev.shouldRebalance)]
          /\ pc' = IF ev.shouldRebalance THEN "migrate" ELSE "sleep"
  /\ UNCHANGED <<returned, config, clock, snapshot, wallet, mig>>

\* `await executeRebalance(...)`: it returns the complete or the failed fold after
\* CallMs, or rejects at once (createOrcaClient) and the loop's catch keeps state
PollMigrate ==
  /\ pc = "migrate"
  /\ \E outcome \in {"success", "failure", "rejected"} :
       IF outcome = "rejected"
         THEN UNCHANGED <<state, clock>>
         ELSE /\ state' = FoldState(outcome = "success", state, clock + CallMs)
              /\ clock' = clock + CallMs
  /\ pc' = "sleep"
  /\ UNCHANGED <<history, returned, config, snapshot, evaluation, wallet, mig>>

PollSleep ==
  /\ pc = "sleep"
  /\ clock + config.pollIntervalSeconds * 1000 <= StartTime + MaxPolls * 1000
  /\ clock' = clock + config.pollIntervalSeconds * 1000
  /\ pc' = "poll"
  /\ UNCHANGED <<history, returned, config, state, snapshot, evaluation, wallet, mig>>

PollNext == PollEvaluate \/ PollMigrate \/ PollSleep

PollSpec == PollInit /\ [][PollNext]_vars

----------------------------------------------------------------------------
(* The functions of strategy.ts called on their own: one call of evaluateTrigger, *)
(* processDwell or checkCooldown on a state, a pool tick, a position, parameters  *)
(* and a clock reading drawn from small sets around the boundaries.               *)

\* minRebalanceIntervalSeconds: none, README's default, and one second more than
\* the StartTime milliseconds that have passed since the epoch
UnitConfigs ==
  [dryRun : {TRUE},
   pollIntervalSeconds : {1},
   edgeBufferPercent : {0, 20, 50},
   dwellSeconds : {0, 10},
   minRebalanceIntervalSeconds : {0, 180, StartTime \div 1000 + 1}]

\* Date.now() around StartTime, StartTime + 10 s and StartTime + 180 s
UnitNows ==
  {StartTime - 1, StartTime, StartTime + 1, StartTime + 9999, StartTime + 10000,
   StartTime + 179999, StartTime + 180000, StartTime + 180001}

\* states without dwell, or with a dwell started at StartTime, that never
\* completed a migration or completed one at StartTime
UnitStates ==
  {[triggerReason |-> "none", dwellStartTime |-> d[1], dwellReason |-> d[2],
    lastRebalanceTime |-> last] :
     d \in {<<<<>>, "null">>} \cup
           {<<<<StartTime>>, r>> : r \in {"out_of_range", "near_lower_edge",
                                          "near_upper_edge"}},
     last \in {0, StartTime}}

\* positions with lowerTick below, at and above upperTick
UnitPositions ==
  [tickLowerIndex : {MinTick - 1, MinTick, MinTick + 2},
   tickUpperIndex : {MinTick - 1, MinTick + 1, MinTick + 3},
   liquidity : {1}]

UnitTicks == (MinTick - 2) .. (MinTick + 4)

UnitInit ==
  /\ config \in UnitConfigs
  /\ clock \in UnitNows
  /\ pc = "unit"
  /\ state \in UnitStates
  /\ \E tick \in UnitTicks : snapshot = [currentTickIndex |-> tick, posIndex |-> 1]
  /\ evaluation = NoEvaluation
  /\ \E position \in UnitPositions : wallet = <<position>>
  /\ mig = NoMigration
  /\ history = NoHistory
  /\ returned = NoReturn

CallEvaluateTrigger ==
  /\ pc = "unit"
  /\ returned' = [fn |-> "evaluateTrigger",
                  value |-> evaluateTrigger(snapshot.currentTickIndex, wallet[1], config)]
  /\ UNCHANGED <<history, config, clock, pc, state, snapshot, evaluation, wallet, mig>>

CallProcessDwell ==
  /\ pc = "unit"
  /\ returned' = [fn |-> "processDwell",
                  value |-> processDwell(state,
                              evaluateTrigger(snapshot.currentTickIndex, wallet[1], config),
                              config, clock)]
  /\ UNCHANGED <<history, config, clock, pc, state, snapshot, evaluation, wallet, mig>>

CallCheckCooldown ==
  /\ pc = "unit"
  /\ returned' = [fn |-> "checkCooldown", value |-> checkCooldown(state, config, clock)]
  /\ UNCHANGED <<history, config, clock, pc, state, snapshot, evaluation, wallet, mig>>

\* runOnce: one runStrategyEvaluation on createStrategyState(), and the rebalance
\* preview when it says so
CallRunOnce ==
  /\ pc = "unit"
  /\ LET ev == runStrategyEvaluation(createStrategyState, snapshot.currentTickIndex,
                                     wallet[1], config, clock, clock)
     IN returned' = [fn |-> "runOnce",
                     value |-> [shouldRebalance |-> ev.shouldRebalance,
                                reason |-> ev.reason, newState |-> ev.newState,
                                preview |-> ev.shouldRebalance]]
  /\ UNCHANGED <<history, config, clock, pc, state, snapshot, evaluation, wallet, mig>>

UnitNext == CallEvaluateTrigger \/ CallProcessDwell \/ CallCheckCooldown \/ CallRunOnce

UnitSpec == UnitInit /\ [][UnitNext]_vars

----------------------------------------------------------------------------
(* calculateTickRange called on its own, in tick coordinates: the tick of the     *)
(* center price, the ticks between the center and center * (1 + rangeWidthPercent) *)
(* and the pool's tick spacing are drawn from small sets on both sides of zero.   *)

RangeCenters == (0 - 12) .. 12

\* narrower than, equal to and wider than a tick spacing
RangeWidths == {1, 4, 8, 10}

RangeSpacings == {1, 2, 8}

RangeInit ==
  /\ config \in [dryRun : {TRUE}, pollIntervalSeconds : {1}, edgeBufferPercent : {0},
                  dwellSeconds : {0}, minRebalanceIntervalSeconds : {0},
                  rangeWidthTicks : RangeWidths]
  /\ clock = StartTime
  /\ pc = "range"
  /\ state = createStrategyState
  /\ \E center \in RangeCenters, spacing \in RangeSpacings :
       snapshot = [currentTickIndex |-> center, posIndex |-> 0, tickSpacing |-> spacing]
  /\ evaluation = NoEvaluation
  /\ wallet = <<>>
  /\ mig = NoMigration
  /\ history = NoHistory
  /\ returned = NoReturn

CallCalculateTickRange ==
  /\ pc = "range"
  /\ returned' = [fn |-> "calculateTickRange",
                  value |-> calculateTickRange(snapshot.currentTickIndex,
                                               config.rangeWidthTicks,
                                               snapshot.tickSpacing)]
  /\ UNCHANGED <<history, config, clock, pc, state, snapshot, evaluation, wallet, mig>>

RangeNext == CallCalculateTickRange

RangeSpec == RangeInit /\ [][RangeNext]_vars

----------------------------------------------------------------------------
(* config.ts and initialize (index.ts): the environment is parsed by ConfigSchema, *)
(* checked by validateConfig, and the process exits or goes on to its first poll.  *)
(* Here rangeWidthPercent and edgeBufferPercent are in ten-thousandths (10 stands  *)
(* for 0.001, 10000 for 1).                                                        *)

\* RANGE_WIDTH_PERCENT: negative, 0, 0.0005, 0.001, 0.1, 0.8, 1, 1.0001
RawWidths == {0 - 1000, 0, 5, 10, 1000, 8000, 10000, 10001}

\* EDGE_BUFFER_PERCENT: negative, 0, 0.02, 0.1, 0.5, 0.6
RawEdges == {0 - 1, 0, 200, 1000, 5000, 6000}

StartupInit ==
  /\ config \in [dryRun : {TRUE}, pollIntervalSeconds : {1}, dwellSeconds : {0},
                  minRebalanceIntervalSeconds : {0},
                  rangeWidthPercent : RawWidths, edgeBufferPercent : RawEdges,
                  keypairExists : BOOLEAN]
  /\ clock = StartTime
  /\ pc = "loadConfig"
  /\ state = createStrategyState
  /\ snapshot = NoSnapshot
  /\ evaluation = NoEvaluation
  /\ wallet = <<InitialPosition>>
  /\ mig = NoMigration
  /\ history = NoHistory
  /\ returned = NoReturn

\* `z.number().min(0.001).max(1)` and `z.number().min(0).max(0.5)`
ConfigSchema(raw) ==
  /\ raw.rangeWidthPercent >= 10 /\ raw.rangeWidthPercent <= 10000
  /\ raw.edgeBufferPercent >= 0 /\ raw.edgeBufferPercent <= 5000

\* a validation that lets every buffer through
validateConfigLax(cfg) == TRUE

\* true when validateConfig returns, false when it throws
validateConfig(cfg) == ~(cfg.edgeBufferPercent >= cfg.rangeWidthPercent)

\* loadConfig: ConfigSchema.parse, then the keypair file must exist
LoadConfig ==
  /\ pc = "loadConfig"
  /\ LET error == IF ~ConfigSchema(config) THEN "Invalid configuration"
                  ELSE IF ~config.keypairExists THEN "Keypair file not found"
                  ELSE "none"
     IN /\ returned' = [fn |-> "loadConfig", value |-> error]
        /\ pc' = IF error = "none" THEN "validateConfig" ELSE "exited"
  /\ UNCHANGED <<history, config, clock, state, snapshot, evaluation, wallet, mig>>

\* validateConfig in initialize's try: a throw ends in process.exit(1)
ValidateConfig ==
  /\ pc = "validateConfig"
  /\ LET ok == validateConfig(config)
     IN /\ returned' = [fn |-> "validateConfig",
                        value |-> IF ok THEN "none"
                                  ELSE "EDGE_BUFFER_PERCENT must be less than RANGE_WIDTH_PERCENT"]
        /\ pc' = IF ok THEN "fetch" ELSE "exited"
  /\ UNCHANGED <<history, config, clock, state, snapshot, evaluation, wallet, mig>>

\* the first poll of the daemon: nothing is found, or the pool and the position
\* are read and evaluated with the validated parameters (buffer in hundredths)
StartupPoll ==
  /\ pc = "fetch"
  /\ \/ /\ pc' = "sleep"
        /\ UNCHANGED <<snapshot, evaluation, state>>
     \/ \E tick \in Ticks :
          LET params == [config EXCEPT !.edgeBufferPercent = @ \div 100]
              ev == runStrategyEvaluation(state, tick, wallet[1], params, clock, clock)
          IN /\ snapshot' = [currentTickIndex |-> tick, posIndex |-> 1]
             /\ evaluation' = [NoEvaluation EXCEPT
                                 !.nowDwell = clock, !.nowCooldown = clock,
                                 !.shouldRebalance = ev.shouldRebalance,
                                 !.reason = ev.reason, !.newState = ev.newState,
                                 !.dwellCompleted = ev.dwellCompleted,
                                 !.timeRemaining = ev.timeRemaining]
             /\ state' = ev.newState
             /\ pc' = "sleep"
  /\ UNCHANGED <<history, returned, config, clock, wallet, mig>>

StartupNext == LoadConfig \/ ValidateConfig \/ StartupPoll

StartupSpec == StartupInit /\ [][StartupNext]_vars

----------------------------------------------------------------------------
(* price.ts: getSolPriceUsd and its module-level cache.  `state` is the module's *)
(* cachedPrice (<<>> for null) and lastFetchTime, `mig.inFlight` the Date.now()   *)
(* read of each call that is waiting for its fetch, `returned` what the last call *)
(* to return gave back.  Calls may overlap: the function is async and exported.   *)

CACHE_DURATION_MS == 300000

MaxPriceCalls == 4        \* calls of getSolPriceUsd followed
MaxConcurrentCalls == 2   \* calls waiting for their fetch at one time

\* Date.now() at the start, within the fetch timeout, around five minutes after
\* the start and after a fetch 5 s later, and ten minutes on
PriceNows ==
  {StartTime, StartTime + 5000, StartTime + 299999, StartTime + 300000,
   StartTime + 304999, StartTime + 305000, StartTime + 600000}

\* data.solana.usd of a valid response
Prices == {1, 2}

NoPriceCache == [cachedPrice |-> <<>>, lastFetchTime |-> 0]

PriceInit ==
  /\ config \in [dryRun : {TRUE}, pollIntervalSeconds : {1}, edgeBufferPercent : {0},
                  dwellSeconds : {0}, minRebalanceIntervalSeconds : {0}]
  /\ clock = StartTime
  /\ pc = "price"
  /\ state = NoPriceCache
  /\ snapshot = NoSnapshot
  /\ evaluation = NoEvaluation
  /\ wallet = <<>>
  /\ mig = [inFlight |-> <<>>]
  /\ history = [calls |-> 0]
  /\ returned = NoReturn

\* a cache that expires one millisecond early
CacheValidShort(cache, now) ==
  cache.cachedPrice # <<>> /\ (now - cache.lastFetchTime) < CACHE_DURATION_MS - 1

\* `cachedPrice !== null && (now - lastFetchTime) < CACHE_DURATION_MS`
CacheValid(cache, now) ==
  cache.cachedPrice # <<>> /\ (now - cache.lastFetchTime) < CACHE_DURATION_MS

\* a call reads Date.now() and returns the cached price, or starts its fetch
PriceCall ==
  /\ pc = "price"
  /\ history.calls < MaxPriceCalls
  /\ history' = [history EXCEPT !.calls = @ + 1]
  /\ IF CacheValid(state, clock)
       THEN /\ returned' = [fn |-> "getSolPriceUsd", outcome |-> "cached",
                            value |-> state.cachedPrice, now |-> clock]
            /\ UNCHANGED mig
       ELSE /\ Len(mig.inFlight) < MaxConcurrentCalls
            /\ mig' = [mig EXCEPT !.inFlight = Append(@, clock)]
            /\ UNCHANGED returned
  /\ UNCHANGED <<config, clock, pc, state, snapshot, evaluation, wallet>>

Without(seq, i) == [j \in 1..(Len(seq) - 1) |-> IF j < i THEN seq[j] ELSE seq[j + 1]]

\* the fetch of one waiting call ends: a valid price is cached with the call's own
\* `now`, or the request fails, times out or carries no positive number and the
\* catch returns cachedPrice as it is then
PriceFetchReturn ==
  /\ pc = "price"
  /\ \E i \in DOMAIN mig.inFlight, ok \in BOOLEAN, price \in Prices :
       /\ ~ok => price = 1
       /\ mig' = [mig EXCEPT !.inFlight = Without(@, i)]
       /\ IF ok
            THEN /\ state' = [cachedPrice |-> <<price>>, lastFetchTime |-> mig.inFlight[i]]
                 /\ returned' = [fn |-> "getSolPriceUsd", outcome |-> "fetched",
                                 value |-> <<price>>, now |-> mig.inFlight[i]]
            ELSE /\ UNCHANGED state
                 /\ returned' = [fn |-> "getSolPriceUsd", outcome |-> "failed",
                                 value |-> state.cachedPrice, now |-> mig.inFlight[i]]
  /\ UNCHANGED <<history, config, clock, pc, snapshot, evaluation, wallet>>

\* time passes
PriceTick ==
  /\ pc = "price"
  /\ \E now \in PriceNows : now > clock /\ clock' = now
  /\ UNCHANGED <<history, returned, config, pc, state, snapshot, evaluation, wallet, mig>>

PriceNext == PriceCall \/ PriceFetchReturn \/ PriceTick

PriceSpec == PriceInit /\ [][PriceNext]_vars

----------------------------------------------------------------------------
(* Claims *)

Live == ~config.dryRun

Attempted == mig.pc = "returned"

Issued(cmd) == \E i \in DOMAIN mig.calls : mig.calls[i].cmd = cmd

ReturnOf(cmd) ==
  LET i == CHOOSE i \in DOMAIN mig.calls : mig.calls[i].cmd = cmd IN mig.calls[i].ret

DwellActive(st) == st.dwellStartTime # <<>>

SameDwell(s, t) == s.dwellStartTime = t.dwellStartTime /\ s.dwellReason = t.dwellReason

\* the fold of a completed migration, at the time the attempt completes
CompletedAt(st, now) ==
  /\ st.lastRebalanceTime = now
  /\ st.dwellStartTime = <<>> /\ st.dwellReason = "null"
  /\ st.triggerReason = "none"

\* C1: runStrategyEvaluation returns shouldRebalance = true exactly when the state
\* it is given holds an active dwell for the reason it returns (not 'none'), the
\* dwell has lasted dwellSeconds when processDwell reads the clock, and
\* minRebalanceIntervalSeconds have passed since lastRebalanceTime when
\* checkCooldown reads it; in every other case it returns false.
C1_FiresIffDwellAndCooldownSatisfied ==
  LET e == evaluation
      s == e.stateIn
  IN e.shouldRebalance <=>
       /\ DwellActive(s)
       /\ e.reason # "none"
       /\ s.dwellReason = e.reason
       /\ e.nowDwell - s.dwellStartTime[1] >= config.dwellSeconds * 1000
       /\ e.nowCooldown - s.lastRebalanceTime >= config.minRebalanceIntervalSeconds * 1000

C1_Witness ==
  /\ evaluation.shouldRebalance
  /\ config.dwellSeconds = 10 /\ config.minRebalanceIntervalSeconds = 180
  /\ evaluation.stateIn.lastRebalanceTime > 0

\* C2: after an attempt that leaves a new position in the result (total or partial
\* success), the returned state is the completed fold: lastRebalanceTime is the
\* completion time, the dwell is cleared and triggerReason is 'none'.
C2_NewPositionFoldsAsComplete ==
  Attempted /\ mig.result.newPosition => CompletedAt(mig.newState, clock)

\* C3: after an attempt that ends without a new position, the returned state has
\* the dwell cleared and the lastRebalanceTime it had before the attempt.
C3_TotalFailureKeepsCooldown ==
  Attempted /\ ~mig.result.newPosition =>
    /\ mig.newState.dwellStartTime = <<>>
    /\ mig.newState.dwellReason = "null"
    /\ mig.newState.lastRebalanceTime = mig.stateArg.lastRebalanceTime

C3_Witness ==
  /\ Attempted /\ ~mig.result.newPosition
  /\ Issued("open") /\ ReturnOf("open") = "null"
  /\ DwellActive(mig.stateArg)
  /\ mig.stateArg.lastRebalanceTime > 0

CloseFailed == Issued("close") /\ ReturnOf("close") \in {"false", "throw"}

\* C4: in a live migration whose close fails, neither openPosition nor
\* depositLiquidity is called and the attempt ends with success = false and no
\* newPosition.
C4_CloseFailureAborts ==
  Live /\ CloseFailed =>
    /\ mig.pc \in {"fold", "returned"}
    /\ ~Issued("open") /\ ~Issued("deposit")
    /\ ~mig.result.success /\ ~mig.result.newPosition

C4_Witness ==
  Live /\ Attempted /\ Issued("close") /\ ReturnOf("close") = "false" /\ mig.removedLiquidity

\* C5: in a live migration in which openPosition returned a position, a failure of
\* step 5 of any kind gives partial success (success = true, newPosition set) and
\* the completed fold.
C5_DepositFailureIsPartialSuccess ==
  /\ Live /\ Attempted
  /\ Issued("open") /\ ReturnOf("open") = "address"
  /\ Issued("deposit") /\ ReturnOf("deposit") \in {"throw", "false"}
  => /\ mig.result.success /\ mig.result.newPosition
     /\ CompletedAt(mig.newState, clock)

\* C6: at most one executeRebalance call is in flight, and none is in flight when
\* runStrategyEvaluation is called.
C6_OneMigrationNoReentry ==
  /\ mig.inFlight <= 1
  /\ evaluation.inFlight = 0

C6_Witness ==
  /\ mig.attempts >= 1 /\ mig.inFlight = 0
  /\ evaluation.prev.shouldRebalance
  /\ pc = "sleep"

\* C7: the process never exits, on a signal, between the removal of the old
\* position's liquidity and the opening of the new position.
C7_NoExitWithFundsStranded ==
  ~(pc = "exited" /\ Live /\ mig.pc = "open" /\ mig.removedLiquidity)

\* C8: the venue commands of one attempt are collect, close, open, deposit in
\* this order, each issued after the one before has returned; live, open follows
\* a close that returned true; deposit follows an open that returned a position.
C8_CommandsInOrder ==
  /\ \A i \in DOMAIN mig.calls :
       /\ mig.calls[i].cmd = Commands[i]
       /\ i < Len(mig.calls) => mig.calls[i].ret # "pending"
  /\ Live /\ Issued("open") => ReturnOf("close") = "true"
  /\ Issued("deposit") => ReturnOf("open") = "address"

C8_Witness ==
  /\ Len(mig.calls) = Len(Commands)
  /\ LastCall.ret = "true"

BlockedByCooldown(e) == e.dwellCompleted /\ ~e.shouldRebalance

\* C9: an evaluation whose dwell is satisfied while the cooldown blocks returns
\* false, reports the time that remains and leaves the dwell as it was; if the next
\* evaluation sees the same reason once the cooldown has expired, it returns true.
C9_CooldownKeepsDwell ==
  LET e == evaluation
      sinceLast == e.nowCooldown - e.stateIn.lastRebalanceTime
      interval == config.minRebalanceIntervalSeconds * 1000
  IN /\ e.dwellCompleted /\ sinceLast < interval =>
          /\ ~e.shouldRebalance
          /\ e.timeRemaining = interval - sinceLast
          /\ SameDwell(e.newState, e.stateIn)
     /\ BlockedByCooldown(e.prev) /\ e.reason = e.prev.reason /\ sinceLast >= interval =>
          e.shouldRebalance

\* minRebalanceIntervalSeconds = 180, blocked with 90 s remaining, then fired 181 s
\* after the last migration on a dwell started before the blocked evaluation
C9_Witness ==
  LET e == evaluation
  IN /\ config.minRebalanceIntervalSeconds = 180
     /\ BlockedByCooldown(e.prev) /\ e.prev.timeRemaining = 90000
     /\ e.shouldRebalance
     /\ e.nowCooldown - e.stateIn.lastRebalanceTime = 181000
     /\ e.stateIn.dwellStartTime[1] < e.prev.nowDwell

\* C10: runStrategyEvaluation never changes lastRebalanceTime, a go decision
\* returns the dwell it was given, and the daemon's lastRebalanceTime changes only
\* when the loop takes the state folded by an executeRebalance that has returned.
C10_FoldOnlyAfterOutcome ==
  [][/\ evaluation'.newState.lastRebalanceTime = evaluation'.stateIn.lastRebalanceTime
     /\ evaluation'.shouldRebalance => SameDwell(evaluation'.newState, evaluation'.stateIn)
     /\ state'.lastRebalanceTime # state.lastRebalanceTime =>
          pc = "rebalance" /\ mig.pc = "returned" /\ state' = mig.newState]_vars

C10_Witness ==
  /\ pc = "sleep" /\ mig.attempts >= 1
  /\ evaluation.shouldRebalance
  /\ DwellActive(evaluation.newState)
  /\ state.lastRebalanceTime > evaluation.nowCooldown

\* C11: when two consecutive evaluations observe different reasons A and B, neither
\* 'none', the second returns dwellCompleted = false and a state whose dwell started
\* at its own clock read with dwellReason = B, whatever had accumulated under A.
C11_ReasonChangeRestartsDwell ==
  LET e == evaluation
  IN e.prev.reason # "none" /\ e.reason # "none" /\ e.reason # e.prev.reason =>
       /\ ~e.dwellCompleted /\ ~e.shouldRebalance
       /\ e.newState.dwellStartTime = <<e.nowDwell>>
       /\ e.newState.dwellReason = e.reason

\* B follows an A whose dwell had already lasted dwellSeconds
C11_Witness ==
  LET e == evaluation
  IN /\ e.prev.reason = "out_of_range" /\ e.reason = "near_lower_edge"
     /\ DwellActive(e.stateIn) /\ e.stateIn.dwellReason = "out_of_range"
     /\ config.dwellSeconds = 10
     /\ e.nowDwell - e.stateIn.dwellStartTime[1] >= config.dwellSeconds * 1000
     /\ e.newState.dwellStartTime = <<e.nowDwell>>

\* the latest run of evaluations that observed one reason
LatestRun == history.runs[Len(history.runs)]

\* out_of_range observed from some T to T + 3 s, 'none' at T + 4 s, out_of_range
\* again from T + 5 s on
ScenarioB ==
  LET runs == history.runs
  IN /\ Len(runs) = 3
     /\ runs[1].reason = "out_of_range" /\ runs[1].to = runs[1].from + 3000
     /\ runs[2].reason = "none" /\ runs[2].from = runs[1].from + 4000
     /\ runs[2].to = runs[2].from
     /\ runs[3].reason = "out_of_range" /\ runs[3].from = runs[1].from + 5000

\* C12: an evaluation that observes 'none' returns a state without dwell; with
\* dwellSeconds = 10, out_of_range observed for 3 s, cleared at 4 s and observed
\* again from 5 s on, the dwell runs from 5 s, no evaluation before 15 s returns
\* shouldRebalance = true and the evaluation at 15 s does.
C12_ClearedConditionRestartsDwell ==
  LET e == evaluation
      t0 == history.runs[1].from
  IN /\ e.reason = "none" => ~DwellActive(e.newState)
     /\ config.dwellSeconds = 10 /\ ScenarioB =>
          /\ LatestRun.to < t0 + 15000 =>
               /\ ~e.shouldRebalance /\ LatestRun.fired = 0
               /\ e.newState.dwellStartTime = <<t0 + 5000>>
          /\ LatestRun.to = t0 + 15000 => e.shouldRebalance /\ LatestRun.fired = 1

C12_Witness ==
  /\ config.dwellSeconds = 10 /\ ScenarioB
  /\ LatestRun.to = history.runs[1].from + 15000
  /\ evaluation.shouldRebalance
  /\ evaluation.prev.nowDwell = history.runs[1].from + 14000
  /\ ~evaluation.prev.shouldRebalance

\* C13: with dwellSeconds = 10, edgeBufferPercent = 0.02 and no cooldown,
\* near_lower_edge observed at every poll of 12 s gives shouldRebalance = true
\* exactly once in those 12 s: at the first evaluation 10 s or more after the first
\* observation, and at no other.
C13_EdgeDwellFiresOnce ==
  /\ history.runs # <<>>
  /\ config.dwellSeconds = 10 /\ config.edgeBufferPercent = 2
  /\ config.minRebalanceIntervalSeconds = 0
  /\ LatestRun.reason = "near_lower_edge"
  /\ LatestRun.to - LatestRun.from <= 12000
  => LatestRun.fired = IF LatestRun.to - LatestRun.from >= 10000 THEN 1 ELSE 0

\* a live attempt has returned in which closePosition returned true and
\* openPosition returned null or threw
CloseThenOpenFailed ==
  /\ Live /\ Attempted
  /\ Issued("close") /\ ReturnOf("close") = "true"
  /\ Issued("open") /\ ReturnOf("open") \in {"null", "throw"}

NextPoll == clock + config.pollIntervalSeconds * 1000

\* the evaluation of the next poll on the state the attempt returned, when the
\* poll observes the tick and the position that triggered the attempt
Retry ==
  runStrategyEvaluation(mig.newState, mig.tick, wallet[mig.posIndex], config,
                        NextPoll, NextPoll)

\* the evaluation dwellSeconds after that one, on the state it returned
RetryAfterDwell ==
  runStrategyEvaluation(Retry.newState, mig.tick, wallet[mig.posIndex], config,
                        NextPoll + config.dwellSeconds * 1000,
                        NextPoll + config.dwellSeconds * 1000)

FailedFoldOf(st, arg) ==
  /\ st.dwellStartTime = <<>> /\ st.dwellReason = "null"
  /\ st.lastRebalanceTime = arg.lastRebalanceTime

\* C14 as stated: after a live migration in which close succeeds and open fails,
\* the state has no dwell and the lastRebalanceTime it had, and the next evaluation
\* that still observes the condition returns shouldRebalance = true.
C14_OpenFailureRetriesAtNextTick ==
  CloseThenOpenFailed =>
    /\ FailedFoldOf(mig.newState, mig.stateArg)
    /\ Retry.reason = evaluation.reason
    /\ Retry.shouldRebalance

\* C14 amended: after such a migration the state has no dwell and the
\* lastRebalanceTime it had, and the cooldown check of the next poll passes; the
\* next evaluation that still observes the condition returns false and starts a
\* new dwell at its clock read, and the evaluation dwellSeconds later returns true.
C14_OpenFailureRetriesAfterNewDwell ==
  CloseThenOpenFailed =>
    /\ FailedFoldOf(mig.newState, mig.stateArg)
    /\ checkCooldown(mig.newState, config, NextPoll).canRebalance
    /\ Retry.reason = evaluation.reason
    /\ ~Retry.shouldRebalance /\ ~Retry.dwellCompleted
    /\ Retry.newState.dwellStartTime = <<NextPoll>>
    /\ RetryAfterDwell.shouldRebalance

C14_Witness ==
  /\ CloseThenOpenFailed /\ ReturnOf("open") = "null"
  /\ mig.removedLiquidity
  /\ DwellActive(mig.stateArg)
  /\ config.minRebalanceIntervalSeconds = 3 /\ config.dwellSeconds = 1

Max(a, b) == IF a >= b THEN a ELSE b

\* C15: the loop keeps the state every evaluation returns, and once one reason
\* other than 'none' has been observed at every poll for dwellSeconds and for
\* minRebalanceIntervalSeconds, an evaluation has returned shouldRebalance = true.
C15_SustainedReasonFires ==
  /\ ~evaluation.shouldRebalance \/ pc = "migrate" => state = evaluation.newState
  /\ /\ history.runs # <<>>
     /\ LatestRun.reason # "none"
     /\ LatestRun.to - LatestRun.from >=
          Max(config.dwellSeconds, config.minRebalanceIntervalSeconds) * 1000
     => LatestRun.fired >= 1

C15_Witness ==
  /\ history.runs # <<>>
  /\ LatestRun.reason = "near_lower_edge"
  /\ LatestRun.to - LatestRun.from = config.dwellSeconds * 1000
  /\ config.dwellSeconds = 10 /\ config.minRebalanceIntervalSeconds = 4
  /\ LatestRun.fired = 1 /\ evaluation.shouldRebalance
  /\ pc = "migrate" /\ state.dwellStartTime = <<LatestRun.from>>

\* C16: of two consecutive migrations of one run that each left a new position
\* (success or partial success), the second was started no sooner than
\* minRebalanceIntervalSeconds after the first returned.
C16_CompletedMigrationsApart ==
  \A i \in DOMAIN history.completed :
    i > 1 =>
      history.completed[i].started - history.completed[i - 1].completed
        >= config.minRebalanceIntervalSeconds * 1000

\* C17: a checkCooldown call leaves the state as it was; it returns canRebalance =
\* true (nothing remaining) when now - lastRebalanceTime is exactly
\* minRebalanceIntervalSeconds, and canRebalance = false with timeRemaining > 0
\* when it is one millisecond less.
C17_CooldownBoundaryInclusive ==
  [][returned'.fn = "checkCooldown" =>
       LET since == clock' - state'.lastRebalanceTime
           interval == config'.minRebalanceIntervalSeconds * 1000
       IN /\ state' = state
          /\ since = interval =>
               returned'.value.canRebalance /\ returned'.value.timeRemaining = 0
          /\ since = interval - 1 =>
               ~returned'.value.canRebalance /\ returned'.value.timeRemaining > 0]_vars

C17_Witness ==
  /\ returned.fn = "checkCooldown"
  /\ config.minRebalanceIntervalSeconds = 180
  /\ state.lastRebalanceTime > 0
  /\ clock - state.lastRebalanceTime = 180000
  /\ returned.value.canRebalance

\* C18: an evaluation of a state without dwell that observes 'none' returns
\* shouldRebalance = false and the very state it was given (lastRebalanceTime
\* unchanged, dwellStartTime and dwellReason null), which the loop keeps, so that
\* the next such evaluation starts from the same state.
C18_NoneEvaluationsAreIdempotent ==
  LET e == evaluation
  IN ~DwellActive(e.stateIn) /\ e.stateIn.dwellReason = "null" /\ e.reason = "none" =>
       /\ ~e.shouldRebalance
       /\ e.newState = e.stateIn
       /\ state = e.stateIn

\* two such evaluations in a row, after a completed migration
C18_Witness ==
  LET e == evaluation
  IN /\ e.prev.reason = "none" /\ e.reason = "none"
     /\ ~DwellActive(e.stateIn) /\ e.prev.newState = e.stateIn
     /\ e.stateIn.lastRebalanceTime > 0
     /\ e.newState = e.stateIn /\ state = e.stateIn

\* C19: with dwellSeconds = 0, processDwell on a state whose dwell was started for
\* the reason now observed returns dwellCompleted = true and the state unchanged,
\* whatever time (zero included) has passed since the dwell started.
C19_ZeroDwellFiresAtOnce ==
  LET trigger == evaluateTrigger(snapshot.currentTickIndex, wallet[1], config)
  IN /\ returned.fn = "processDwell" /\ config.dwellSeconds = 0
     /\ DwellActive(state) /\ state.dwellReason = trigger.reason
     /\ clock - state.dwellStartTime[1] >= 0
     => returned.value.dwellCompleted /\ returned.value.state = state

C19_Witness ==
  /\ returned.fn = "processDwell" /\ config.dwellSeconds = 0
  /\ DwellActive(state) /\ clock = state.dwellStartTime[1]
  /\ state.dwellReason = "near_upper_edge"
  /\ returned.value.dwellCompleted

\* C20: evaluateTrigger returns 'out_of_range' exactly when the tick is below
\* lowerTick or at or above upperTick, for every tick, position and
\* edgeBufferPercent.
C20_OutOfRangeIffOutsideHalfOpenRange ==
  returned.fn = "evaluateTrigger" =>
    (returned.value.reason = "out_of_range" <=>
       \/ snapshot.currentTickIndex < wallet[1].tickLowerIndex
       \/ snapshot.currentTickIndex >= wallet[1].tickUpperIndex)

\* out of range at the exact upper tick of a proper range
C20_Witness ==
  /\ returned.fn = "evaluateTrigger"
  /\ wallet[1].tickLowerIndex < wallet[1].tickUpperIndex
  /\ snapshot.currentTickIndex = wallet[1].tickUpperIndex
  /\ config.edgeBufferPercent = 50
  /\ returned.value.reason = "out_of_range"

\* C21: for a tick inside the range, evaluateTrigger returns 'near_lower_edge' when
\* (tick - lowerTick) / (upperTick - lowerTick) is below edgeBufferPercent, else
\* 'near_upper_edge' when (upperTick - tick) / (upperTick - lowerTick) is below it,
\* else 'none'; with edgeBufferPercent = 0 it returns 'none'.
C21_EdgeReasonByDistance ==
  LET tick == snapshot.currentTickIndex
      lowerTick == wallet[1].tickLowerIndex
      upperTick == wallet[1].tickUpperIndex
      width == upperTick - lowerTick
      buffer == config.edgeBufferPercent
  IN returned.fn = "evaluateTrigger" /\ tick >= lowerTick /\ tick < upperTick =>
       /\ returned.value.reason =
            IF (tick - lowerTick) * 100 < buffer * width THEN "near_lower_edge"
            ELSE IF (upperTick - tick) * 100 < buffer * width THEN "near_upper_edge"
            ELSE "none"
       /\ buffer = 0 => returned.value.reason = "none"

\* one tick below the upper bound of a range four ticks wide, buffer 0.5
C21_Witness ==
  /\ returned.fn = "evaluateTrigger"
  /\ config.edgeBufferPercent = 50
  /\ wallet[1].tickUpperIndex - wallet[1].tickLowerIndex = 4
  /\ snapshot.currentTickIndex = wallet[1].tickUpperIndex - 1
  /\ returned.value.reason = "near_upper_edge"

\* C22: a poll whose pool or position read fails, or that finds no position, leaves
\* the engine state as it was and starts no migration, and the only way on from
\* the sleep that follows it is the next poll, pollIntervalSeconds later, with the
\* same engine state.
C22_SkippedPollChangesNothing ==
  [][/\ pc = "fetch" /\ pc' = "sleep" =>
          /\ state' = state /\ evaluation' = evaluation
          /\ mig' = mig /\ clock' = clock
     /\ pc = "sleep" /\ snapshot = NoSnapshot /\ pc' \notin {"sleep", "exited"} =>
          /\ pc' = "fetch"
          /\ clock' = clock + config.pollIntervalSeconds * 1000
          /\ state' = state /\ mig' = mig]_vars

\* the poll after a skipped poll, with the dwell that was running before it
C22_Witness ==
  /\ pc = "fetch" /\ snapshot = NoSnapshot
  /\ clock > StartTime
  /\ DwellActive(state) /\ state = evaluation.newState

\* C23: while executeRebalance is in flight the daemon's engine state is the state
\* that was passed in, and once the call has settled it is the complete fold of
\* that state (lastRebalanceTime = now, dwell cleared, triggerReason 'none'), its
\* failure fold (dwell cleared, the rest as passed in) or that very state;
\* lastRebalanceTime is never advanced with the dwell still active.
C23_FoldIsAtomic ==
  LET passed == evaluation.newState
  IN /\ pc = "rebalance" => state = mig.stateArg /\ state = passed
     /\ pc = "sleep" /\ snapshot # NoSnapshot /\ evaluation.shouldRebalance =>
          /\ \/ CompletedAt(state, clock)
             \/ /\ state.dwellStartTime = <<>> /\ state.dwellReason = "null"
                /\ state.lastRebalanceTime = passed.lastRebalanceTime
                /\ state.triggerReason = passed.triggerReason
             \/ state = passed
          /\ ~(state.lastRebalanceTime # passed.lastRebalanceTime /\ DwellActive(state))

\* after a call that rejected at createOrcaClient: the state that was passed in
C23_Witness ==
  /\ pc = "sleep" /\ snapshot # NoSnapshot /\ evaluation.shouldRebalance
  /\ mig.attempts = 2 /\ mig.inFlight = 0
  /\ state = evaluation.newState /\ DwellActive(state)
  /\ state.lastRebalanceTime > 0

\* a helper that threw, returned false, or returned null in a live run
StepFailed(call) ==
  \/ call.ret \in {"throw", "false"}
  \/ call.ret = "null" /\ Live

\* C24: an attempt in which a step (fee collection, close, open or deposit) failed
\* returns with result.error set.
C24_StepFailureSurfaced ==
  Attempted /\ (\E i \in DOMAIN mig.calls : StepFailed(mig.calls[i])) =>
    mig.result.error # "none"

\* C25: an attempt whose fee collection failed still goes on to close the old
\* position, and the failure is recorded in the result.
C25_CollectIsBestEffort ==
  Attempted /\ Issued("collect") /\ StepFailed(mig.calls[1]) =>
    /\ Issued("close")
    /\ mig.result.error # "none"

\* C26: with dryRun set no helper sends a transaction to the venue, every helper
\* called returns its simulated outcome, and the attempt returns the completed
\* fold (lastRebalanceTime = now, dwell cleared, triggerReason 'none').
C26_DryRunFoldsAsLiveSuccess ==
  config.dryRun =>
    /\ \A i \in DOMAIN mig.calls : ~mig.calls[i].mutating
    /\ Attempted =>
         /\ \A i \in DOMAIN mig.calls : mig.calls[i].ret \in {"fees", "true", "null"}
         /\ mig.result.success
         /\ CompletedAt(mig.newState, clock)

\* C27 as claimed: within one attempt no helper sends a transaction again after
\* one of the same kind has failed.
C27_NoInternalRetry ==
  \A i \in DOMAIN mig.calls : mig.calls[i].retries = 0

\* the helper's outcome ends the attempt: it threw, close failed, or a live open
\* gave no position
Terminal(call) ==
  \/ call.ret = "throw"
  \/ call.cmd = "close" /\ call.ret = "false"
  \/ call.cmd = "open" /\ call.ret = "null" /\ Live

\* C27, amended: executeRebalance calls each helper at most once in an attempt and
\* calls no helper after one whose outcome ends the attempt; collectFeesAndRewards
\* and closePosition send no transaction again after a failure; openPosition sends
\* at most one more (the SDK fallback) and depositLiquidity at most six more (the
\* remaining percentages).
C27_RetriesOnlyInsideOpenAndDeposit ==
  \A i \in DOMAIN mig.calls :
    LET call == mig.calls[i]
    IN /\ \A j \in DOMAIN mig.calls : mig.calls[j].cmd = call.cmd => j = i
       /\ Terminal(call) => i = Len(mig.calls)
       /\ call.cmd \in {"collect", "close"} => call.retries = 0
       /\ call.cmd = "open" => call.retries <= 1
       /\ call.cmd = "deposit" => call.retries <= 6

\* an attempt whose open went through the fallback and whose deposit was executed
\* with the last percentage
C27_Witness ==
  /\ Live /\ Attempted
  /\ Issued("open") /\ ReturnOf("open") = "address" /\ mig.calls[3].retries = 1
  /\ Issued("deposit") /\ ReturnOf("deposit") = "true" /\ mig.calls[4].retries = 6

\* C28: the position a live attempt opens has the range calculateTickRange gives
\* for the pool tick as it is when step 4 reads the pool.
C28_RangeCenteredOnFreshPrice ==
  Live /\ mig.pc = "balances" /\ mig.newPositionAddress # 0 =>
    LET opened == wallet[mig.newPositionAddress]
        range == calculateTickRange(mig.poolTick, HalfWidthTicks, TickSpacing)
    IN /\ opened.tickLowerIndex = range.lowerTick
       /\ opened.tickUpperIndex = range.upperTick

\* C29: after a live attempt that reports success the wallet holds one position in
\* the pool, the new one.
C29_OnePositionAfterMigration ==
  Live /\ Attempted /\ mig.result.success =>
    /\ Len(wallet) = 1
    /\ mig.newPositionAddress = 1

\* C30: checkCooldown on a state that never completed a migration
\* (lastRebalanceTime = 0) returns canRebalance = true, whatever
\* minRebalanceIntervalSeconds is.
C30_FirstCooldownCheckPasses ==
  returned.fn = "checkCooldown" /\ state.lastRebalanceTime = 0 =>
    returned.value.canRebalance

\* C31: every range calculateTickRange returns has lowerTick < upperTick, both
\* multiples of tickSpacing.
C31_RangeOrderedAndAligned ==
  returned.fn = "calculateTickRange" =>
    /\ returned.value.lowerTick < returned.value.upperTick
    /\ returned.value.lowerTick % snapshot.tickSpacing = 0
    /\ returned.value.upperTick % snapshot.tickSpacing = 0

\* C32: the range calculateTickRange returns is never narrower than the requested
\* one: lowerTick is at or below the tick of center / (1 + w) and upperTick at or
\* above the tick of center * (1 + w).
C32_SnapsLowerDownUpperUp ==
  returned.fn = "calculateTickRange" =>
    /\ returned.value.lowerTick <= snapshot.currentTickIndex - config.rangeWidthTicks
    /\ returned.value.upperTick >= snapshot.currentTickIndex + config.rangeWidthTicks

Started == pc \in {"fetch", "sleep"}

C34_OpenCreatesAtMostOne ==
  [][mig.pc = "open" /\ Pending => Len(wallet') <= Len(wallet) + 1]_vars

\* C35: whenever evaluateTrigger calls calculateEdgeDistance the tick is in range
\* and the range width it divides by is positive, also for positions with
\* lowerTick = upperTick or lowerTick > upperTick.
C35_NoZeroWidthDivision ==
  returned.fn = "evaluateTrigger" /\ returned.value.edgeDistance # <<>> =>
    /\ returned.value.edgeDistance[1].rangeWidth > 0
    /\ wallet[1].tickLowerIndex <= snapshot.currentTickIndex
    /\ snapshot.currentTickIndex < wallet[1].tickUpperIndex

\* an empty range with the tick on it and a positive buffer: out of range, no
\* edge distance computed
C35_Witness ==
  /\ returned.fn = "evaluateTrigger"
  /\ wallet[1].tickLowerIndex = wallet[1].tickUpperIndex
  /\ snapshot.currentTickIndex = wallet[1].tickLowerIndex
  /\ config.edgeBufferPercent > 0
  /\ returned.value.reason = "out_of_range"
  /\ returned.value.edgeDistance = <<>>

\* C36: one runStrategyEvaluation on a freshly created state returns
\* shouldRebalance = false for every tick, position and parameters, dwellSeconds =
\* 0 and minRebalanceIntervalSeconds = 0 included, so runOnce never prints the
\* rebalance preview.
C36_FreshStateNeverFires ==
  returned.fn = "runOnce" =>
    ~returned.value.shouldRebalance /\ ~returned.value.preview

\* out of range with no dwell and no cooldown to wait for: the dwell starts
C36_Witness ==
  /\ returned.fn = "runOnce"
  /\ config.dwellSeconds = 0 /\ config.minRebalanceIntervalSeconds = 0
  /\ returned.value.reason = "out_of_range"
  /\ returned.value.newState.dwellStartTime = <<clock>>
  /\ ~returned.value.shouldRebalance

\* C37: when the evaluation before an outage did not fire and observed a reason
\* other than 'none', and the first evaluation after the outage (two poll
\* intervals or more later, and at least dwellSeconds) observes the same reason,
\* that evaluation is given the state the earlier one returned and finds the
\* dwell completed: the skipped polls neither cleared nor paused the dwell.
C37_OutageCountsTowardsDwell ==
  LET e == evaluation
      gap == e.nowDwell - e.prev.nowDwell
  IN /\ ~e.prev.shouldRebalance
     /\ e.prev.reason # "none" /\ e.reason = e.prev.reason
     /\ gap >= 2 * config.pollIntervalSeconds * 1000
     /\ gap >= config.dwellSeconds * 1000
     => /\ e.stateIn = e.prev.newState
        /\ e.dwellCompleted

\* a dwell of one second started by the poll before a skipped poll, completed at
\* the poll after it
C37_Witness ==
  LET e == evaluation
  IN /\ config.dwellSeconds = 1
     /\ ~e.prev.shouldRebalance /\ e.prev.reason = "near_lower_edge"
     /\ e.reason = "near_lower_edge"
     /\ e.nowDwell - e.prev.nowDwell = 2000
     /\ e.stateIn.dwellStartTime = <<e.prev.nowDwell>>
     /\ e.dwellCompleted /\ e.shouldRebalance

\* C38: in every engine state reached from createStrategyState through
\* evaluations and folds, dwellStartTime is null exactly when dwellReason is null,
\* and dwellReason is never 'none'.
C38_DwellFieldsAgree ==
  \A st \in {state, evaluation.stateIn, evaluation.newState} :
    /\ st.dwellStartTime = <<>> <=> st.dwellReason = "null"
    /\ st.dwellReason # "none"

\* a dwell for the lower edge, running after a completed migration
C38_Witness ==
  /\ state.dwellStartTime # <<>> /\ state.dwellReason = "near_lower_edge"
  /\ state.lastRebalanceTime > 0
  /\ evaluation.prev.reason = "none"

C40_PriceCacheKept ==
  [][/\ history'.calls # history.calls
        /\ state.cachedPrice # <<>> /\ clock - state.lastFetchTime < 300000 =>
          /\ mig' = mig /\ state' = state
          /\ returned'.outcome = "cached" /\ returned'.value = state.cachedPrice
     /\ Len(mig'.inFlight) < Len(mig.inFlight) /\ returned'.outcome = "failed" =>
          /\ state' = state
          /\ returned'.value = state.cachedPrice
     /\ state.cachedPrice # <<>> => state'.cachedPrice # <<>>]_vars

\* the third call, made exactly five minutes after the one that cached a price,
\* fetched, failed and returned the price cached before
C40_Witness ==
  /\ returned.fn = "getSolPriceUsd" /\ returned.outcome = "failed"
  /\ returned.value = <<2>> /\ state.cachedPrice = <<2>>
  /\ returned.now - state.lastFetchTime = 300000
  /\ history.calls = 3 /\ mig.inFlight = <<>>

====
